---- MODULE Spec2Model ----
(***************************************************************************)
(* Model of multilspy/server.py: the session registry (SessionManager),    *)
(* the per-project session (LSPSession) and the request handlers that      *)
(* drive them.  Each caller is a thread that executes one handler at a     *)
(* time; a handler is cut into steps at the points where another thread    *)
(* can observe or change shared state (lock acquisition, blocking calls    *)
(* into the underlying client, reads and writes of self.lsp).              *)
(***************************************************************************)
EXTENDS Integers, Sequences, FiniteSets, TLC

\* ------------------------------------------------------------------ bounds
NumThreads == 2
MaxSessions == 2
MaxCalls == 3

Threads == 1..NumThreads

\* ------------------------------------------------------------------ inputs
Languages == {"python", "dart"}
SupportedLanguages == {"python", "java"}
Paths == {"/srv/proj", "/srv/none", "proj"}
Files == {"main.py", "gone.py"}
IdPool == <<"id1", "id2", "id3", "id4">>
SessionIds == {IdPool[i] : i \in 1..MaxSessions}

None == 0

\* os.path.isabs(project_path)
isabs(p) == p \in {"/srv/proj", "/srv/none"}
\* os.path.isdir(project_path)
isdir(p) == p \in {"/srv/proj", "proj"}

VARIABLES
    th,         \* per thread: position, request inputs, locals, outcome
    heap,       \* the LSPSession objects constructed so far
    client,     \* the underlying SyncLanguageServer of each LSPSession
    sessions,   \* SessionManager._sessions, in insertion order
    mlock,      \* SessionManager._lock: the thread holding it, or None
    popped,     \* history: LSPSession objects removed by delete_session
    deletedIds, \* history: ids for which delete_session has returned True
    calls       \* history: number of requests issued since the initial state

vars == <<th, heap, client, sessions, mlock, popped, deletedIds, calls>>

\* ------------------------------------------------------- dict operations
\* list(self._sessions.keys())
Keys(d) == [i \in 1..Len(d) |-> d[i].id]
KeySet(d) == {d[i].id : i \in 1..Len(d)}
\* self._sessions.get(session_id)
DictGet(d, id) ==
    IF id \in KeySet(d) THEN (CHOOSE i \in 1..Len(d) : d[i].id = id) ELSE 0
Lookup(d, id) == IF DictGet(d, id) = 0 THEN None ELSE d[DictGet(d, id)].obj
\* self._sessions[session_id] = session
DictPut(d, id, k) ==
    IF id \in KeySet(d)
    THEN [d EXCEPT ![DictGet(d, id)] = [id |-> id, obj |-> k]]
    ELSE Append(d, [id |-> id, obj |-> k])
\* self._sessions.pop(session_id, None), the remaining dict
DictPop(d, id) ==
    IF id \in KeySet(d)
    THEN SubSeq(d, 1, DictGet(d, id) - 1) \o SubSeq(d, DictGet(d, id) + 1, Len(d))
    ELSE d
Values(d) == {d[i].obj : i \in 1..Len(d)}

\* ---------------------------------------------------------------- helpers
Idle == [pc |-> "idle", op |-> "none", language |-> "python",
         project_path |-> "/srv/proj", session_id |-> "id1",
         file_path |-> "main.py", session |-> None, exc |-> "none",
         code |-> 0, ret |-> <<>>]

Request(op, language, path, id, file) ==
    [Idle EXCEPT !.pc = "call", !.op = op, !.language = language,
                 !.project_path = path, !.session_id = id, !.file_path = file]

\* the thread goes to position p
Goto(t, p) == th' = [th EXCEPT ![t].pc = p]

\* the handler ends with an HTTP status and a body; its locals go out of
\* scope (the session id of the request is kept with the outcome)
Respond(r, c, e, v) ==
    [Idle EXCEPT !.op = r.op, !.session_id = r.session_id,
                 !.code = c, !.exc = e, !.ret = v]

\* the ids drawn so far
assigned == {heap[k].session_id : k \in 1..Len(heap)}

\* uuid.uuid4().hex[:12]: the candidate values of a draw.  An id is opaque
\* (the program only compares ids), and a uuid4 value is taken not to
\* repeat: a draw yields the first id of the pool that was not drawn yet.
uuid4_hex12 == IF Len(heap) < Len(IdPool) THEN {IdPool[Len(heap) + 1]} ELSE {}

Init ==
    /\ th = [t \in Threads |-> Idle]
    /\ heap = <<>>
    /\ client = <<>>
    /\ sessions = <<>>
    /\ mlock = None
    /\ popped = {}
    /\ deletedIds = {}
    /\ calls = 0

\* ------------------------------------------------ POST /api/sessions
create_session_validate_noisdir(r) ==
    IF r.language \notin SupportedLanguages
       \/ ~isabs(r.project_path)
    THEN Respond(r, 400, "ValueError", <<>>)
    ELSE [r EXCEPT !.pc = "cs_start"]

\* create_session, lines 129-136: the three validations.  ValueError is
\* mapped to 400 by the handler (line 207-208)
create_session_validate(r) ==
    IF r.language \notin SupportedLanguages
       \/ ~isabs(r.project_path)
       \/ ~isdir(r.project_path)
    THEN Respond(r, 400, "ValueError", <<>>)
    ELSE [r EXCEPT !.pc = "cs_start"]

\* the exceptions start() can raise, as the handler tells them apart: a
\* ValueError (or a subclass of it, such as json.JSONDecodeError or
\* UnicodeDecodeError) and any other Exception
StartErrors == {"Exception", "ValueError"}

\* the status the handler maps an exception of create_session to (lines
\* 207-210)
CreateStatus(exc) == IF exc = "ValueError" THEN 400 ELSE 500

\* LSPSession.__init__
LSPSession(id, language, path) ==
    [session_id |-> id, language |-> language, project_path |-> path,
     lsp |-> None, server_context |-> None, lock |-> None]

\* the underlying client of a session before SyncLanguageServer.create
NoClient == [status |-> "absent", exits |-> 0, exit_error |-> FALSE, open |-> {},
             diags |-> <<>>]

\* the session registered before it is started
create_session_start_insert(t, r) ==
    /\ Len(heap) < MaxSessions
    /\ mlock = None
    /\ LET k == Len(heap) + 1 IN
       \E id \in uuid4_hex12 :
         /\ sessions' = DictPut(sessions, id, k)
         /\ heap' = Append(heap, [LSPSession(id, r.language, r.project_path)
                                    EXCEPT !.lsp = k, !.server_context = k])
         /\ client' = Append(client, [NoClient EXCEPT !.status = "starting"])
         /\ th' = [th EXCEPT ![t] = [r EXCEPT !.pc = "st_enter", !.session_id = id,
                                               !.session = k]]

\* create_session, lines 138-140: session_id = uuid4().hex[:12];
\* session = LSPSession(...); session.start() up to line 94:
\* self.lsp = SyncLanguageServer.create(...) (which may raise) and
\* self.server_context = self.lsp.start_server(), on which __enter__ is
\* then called
create_session_start(t, r) ==
    /\ Len(heap) < MaxSessions
    /\ LET k == Len(heap) + 1 IN
       \E id \in uuid4_hex12 :
         \/ /\ heap' = Append(heap, [LSPSession(id, r.language, r.project_path)
                                       EXCEPT !.lsp = k, !.server_context = k])
            /\ client' = Append(client, [NoClient EXCEPT !.status = "starting"])
            /\ th' = [th EXCEPT ![t] = [r EXCEPT !.pc = "st_enter", !.session_id = id,
                                                  !.session = k]]
         \/ /\ heap' = Append(heap, LSPSession(id, r.language, r.project_path))
            /\ client' = Append(client, NoClient)
            /\ \E e \in StartErrors :
                 th' = [th EXCEPT ![t] = Respond([r EXCEPT !.session_id = id],
                                                 CreateStatus(e), e, <<>>)]
    /\ UNCHANGED sessions

\* the handler calls session_manager.create_session (lines 196-200)
api_create_session(t) ==
    /\ th[t].pc = "idle"
    /\ calls < MaxCalls
    /\ calls' = calls + 1
    /\ \E language \in Languages, path \in Paths :
         LET r == create_session_validate(
                      Request("create", language, path, "id1", "main.py")) IN
         IF r.pc = "idle"
         THEN /\ th' = [th EXCEPT ![t] = r]
              /\ UNCHANGED <<heap, client, sessions>>
         ELSE create_session_start(t, r)
    /\ UNCHANGED <<mlock, popped, deletedIds>>

\* the same request when the 12 hex digits drawn at line 138 equal an id
\* drawn before: uuid4 draws 48 random bits here and create_session does
\* not look the id up before line 143
api_create_session_repeat(t) ==
    /\ th[t].pc = "idle"
    /\ calls < MaxCalls
    /\ calls' = calls + 1
    /\ Len(heap) < MaxSessions
    /\ \E language \in Languages, path \in Paths, id \in assigned :
         LET r == create_session_validate(
                      Request("create", language, path, "id1", "main.py"))
             k == Len(heap) + 1 IN
         /\ r.pc # "idle"
         /\ heap' = Append(heap, [LSPSession(id, r.language, r.project_path)
                                    EXCEPT !.lsp = k, !.server_context = k])
         /\ client' = Append(client, [NoClient EXCEPT !.status = "starting"])
         /\ th' = [th EXCEPT ![t] = [r EXCEPT !.pc = "st_enter", !.session_id = id,
                                               !.session = k]]
    /\ UNCHANGED <<sessions, mlock, popped, deletedIds>>

\* start() whose failure is not propagated
start_enter_swallow(t) ==
    /\ th[t].pc = "st_enter"
    /\ LET k == th[t].session IN
       \/ /\ client' = [client EXCEPT ![k].status = "running"]
          /\ Goto(t, "cs_lock")
       \/ /\ client' = [client EXCEPT ![k].status = "failed"]
          /\ Goto(t, "cs_lock")
    /\ UNCHANGED <<heap, sessions, mlock, popped, deletedIds, calls>>

\* LSPSession.start, line 95: __enter__ returns or raises; an exception
\* leaves create_session and is mapped by the handler (lines 207-210)
start_enter(t) ==
    /\ th[t].pc = "st_enter"
    /\ LET k == th[t].session IN
       \/ /\ client' = [client EXCEPT ![k].status = "running"]
          /\ Goto(t, "cs_lock")
       \/ /\ client' = [client EXCEPT ![k].status = "failed"]
          /\ \E e \in StartErrors :
               th' = [th EXCEPT ![t] = Respond(@, CreateStatus(e), e, <<>>)]
    /\ UNCHANGED <<heap, sessions, mlock, popped, deletedIds, calls>>

\* with self._lock:
create_session_lock(t) ==
    /\ th[t].pc = "cs_lock"
    /\ mlock = None
    /\ mlock' = t
    /\ Goto(t, "cs_insert")
    /\ UNCHANGED <<heap, client, sessions, popped, deletedIds, calls>>

\* create_session returning the session without storing it
create_session_insert_skip(t) ==
    /\ th[t].pc = "cs_insert"
    /\ sessions' = sessions
    /\ mlock' = None
    /\ th' = [th EXCEPT ![t] = Respond(@, 200, "none", <<th[t].session_id>>)]
    /\ UNCHANGED <<heap, client, popped, deletedIds, calls>>

\* self._sessions[session_id] = session; the lock is released and the
\* handler answers with the session id
create_session_insert(t) ==
    /\ th[t].pc = "cs_insert"
    /\ sessions' = DictPut(sessions, th[t].session_id, th[t].session)
    /\ mlock' = None
    /\ th' = [th EXCEPT ![t] = Respond(@, 200, "none", <<th[t].session_id>>)]
    /\ UNCHANGED <<heap, client, popped, deletedIds, calls>>

\* ------------------------------------------ SessionManager.get_session
get_session(t) ==
    /\ th[t].pc = "idle"
    /\ calls < MaxCalls
    /\ calls' = calls + 1
    /\ \E id \in SessionIds :
         th' = [th EXCEPT ![t] = Request("get", "python", "/srv/proj", id, "main.py")]
    /\ UNCHANGED <<heap, client, sessions, mlock, popped, deletedIds>>

\* with self._lock: (line 149), for a direct caller and for the
\* diagnostics handler (line 224)
get_session_lock(t) ==
    /\ th[t].pc = "call" /\ th[t].op \in {"get", "diag"}
    /\ mlock = None
    /\ mlock' = t
    /\ Goto(t, "gs_get")
    /\ UNCHANGED <<heap, client, sessions, popped, deletedIds, calls>>

\* return self._sessions.get(session_id)
get_session_return(t) ==
    /\ th[t].pc = "gs_get" /\ th[t].op = "get"
    /\ mlock' = None
    /\ LET s == Lookup(sessions, th[t].session_id) IN
       th' = [th EXCEPT ![t] = Respond(@, IF s = None THEN 404 ELSE 200, "none",
                                       IF s = None THEN <<>> ELSE <<s>>)]
    /\ UNCHANGED <<heap, client, sessions, popped, deletedIds, calls>>

\* ------------------------------------------------- GET /api/sessions
list_sessions(t) ==
    /\ th[t].pc = "idle"
    /\ calls < MaxCalls
    /\ calls' = calls + 1
    /\ th' = [th EXCEPT ![t] = Request("list", "python", "/srv/proj", "id1", "main.py")]
    /\ UNCHANGED <<heap, client, sessions, mlock, popped, deletedIds>>

list_sessions_lock(t) ==
    /\ th[t].pc = "call" /\ th[t].op = "list"
    /\ mlock = None
    /\ mlock' = t
    /\ Goto(t, "ls_keys")
    /\ UNCHANGED <<heap, client, sessions, popped, deletedIds, calls>>

\* return list(self._sessions.keys())
list_sessions_return(t) ==
    /\ th[t].pc = "ls_keys"
    /\ mlock' = None
    /\ th' = [th EXCEPT ![t] = Respond(@, 200, "none", Keys(sessions))]
    /\ UNCHANGED <<heap, client, sessions, popped, deletedIds, calls>>

\* ------------------------------------ DELETE /api/sessions/{session_id}
api_delete_session(t) ==
    /\ th[t].pc = "idle"
    /\ calls < MaxCalls
    /\ calls' = calls + 1
    /\ \E id \in SessionIds :
         th' = [th EXCEPT ![t] = Request("delete", "python", "/srv/proj", id, "main.py")]
    /\ UNCHANGED <<heap, client, sessions, mlock, popped, deletedIds>>

\* with self._lock: (line 154)
delete_session_lock(t) ==
    /\ th[t].pc = "call" /\ th[t].op = "delete"
    /\ mlock = None
    /\ mlock' = t
    /\ Goto(t, "ds_pop")
    /\ UNCHANGED <<heap, client, sessions, popped, deletedIds, calls>>

\* delete_session calling stop() inside the block of line 154
delete_session_pop_hold(t) ==
    /\ th[t].pc = "ds_pop"
    /\ LET s == Lookup(sessions, th[t].session_id) IN
       /\ sessions' = DictPop(sessions, th[t].session_id)
       /\ mlock' = IF s = None THEN None ELSE mlock
       /\ popped' = IF s = None THEN popped ELSE popped \cup {s}
       /\ th' = [th EXCEPT ![t] =
                   IF s = None
                   THEN Respond(@, 404, "none", <<>>)
                   ELSE [@ EXCEPT !.pc = "stop", !.session = s]]
    /\ UNCHANGED <<heap, client, deletedIds, calls>>

\* delete_session without the test of line 157
delete_session_pop_true(t) ==
    /\ th[t].pc = "ds_pop"
    /\ LET s == Lookup(sessions, th[t].session_id) IN
       /\ sessions' = DictPop(sessions, th[t].session_id)
       /\ mlock' = None
       /\ popped' = IF s = None THEN popped ELSE popped \cup {s}
       /\ th' = [th EXCEPT ![t] =
                   IF s = None
                   THEN Respond(@, 200, "none", <<>>)
                   ELSE [@ EXCEPT !.pc = "stop", !.session = s]]
    /\ UNCHANGED <<heap, client, deletedIds, calls>>

\* delete_session reading the entry with get instead of pop
delete_session_get(t) ==
    /\ th[t].pc = "ds_pop"
    /\ LET s == Lookup(sessions, th[t].session_id) IN
       /\ sessions' = sessions
       /\ mlock' = None
       /\ popped' = IF s = None THEN popped ELSE popped \cup {s}
       /\ th' = [th EXCEPT ![t] =
                   IF s = None
                   THEN Respond(@, 404, "none", <<>>)
                   ELSE [@ EXCEPT !.pc = "stop", !.session = s]]
    /\ UNCHANGED <<heap, client, deletedIds, calls>>

\* session = self._sessions.pop(session_id, None); the lock is released.
\* Without a session the call returns False and the handler answers 404.
delete_session_pop(t) ==
    /\ th[t].pc = "ds_pop"
    /\ LET s == Lookup(sessions, th[t].session_id) IN
       /\ sessions' = DictPop(sessions, th[t].session_id)
       /\ mlock' = None
       /\ popped' = IF s = None THEN popped ELSE popped \cup {s}
       /\ th' = [th EXCEPT ![t] =
                   IF s = None
                   THEN Respond(@, 404, "none", <<>>)
                   ELSE [@ EXCEPT !.pc = "stop", !.session = s]]
    /\ UNCHANGED <<heap, client, deletedIds, calls>>

\* lines 104-105 of stop, then delete_session returns True and the
\* handler answers 200
stop_clear(t, k) ==
    /\ heap' = [heap EXCEPT ![k].lsp = None, ![k].server_context = None]
    /\ deletedIds' = deletedIds \cup {th[t].session_id}
    /\ th' = [th EXCEPT ![t] = Respond(@, 200, "none", <<>>)]

\* LSPSession.stop, lines 99-101: with a server_context, __exit__ is
\* called on it
stop(t) ==
    /\ th[t].pc = "stop"
    /\ LET k == th[t].session IN
       IF heap[k].server_context # None
       THEN /\ client' = [client EXCEPT ![k].status = "exiting",
                                        ![k].exits = @ + 1]
            /\ Goto(t, "stop_exit")
            /\ UNCHANGED <<heap, deletedIds>>
       ELSE /\ stop_clear(t, k)
            /\ UNCHANGED client
    /\ UNCHANGED <<sessions, mlock, popped, calls>>

\* stop without the try/except of lines 100-103
stop_exit_propagate(t) ==
    /\ th[t].pc = "stop_exit"
    /\ LET k == th[t].session IN
       \/ /\ client' = [client EXCEPT ![k].status = "exited", ![k].exit_error = FALSE]
          /\ stop_clear(t, k)
       \/ /\ client' = [client EXCEPT ![k].status = "exited", ![k].exit_error = TRUE]
          /\ th' = [th EXCEPT ![t] = Respond(@, 500, "Exception", <<>>)]
          /\ UNCHANGED <<heap, deletedIds>>
    /\ UNCHANGED <<sessions, mlock, popped, calls>>

\* __exit__ returns, or raises an Exception that lines 102-103 discard
stop_exit(t) ==
    /\ th[t].pc = "stop_exit"
    /\ LET k == th[t].session IN
       /\ \E raised \in BOOLEAN :
            client' = [client EXCEPT ![k].status = "exited",
                                     ![k].exit_error = raised]
       /\ stop_clear(t, k)
    /\ UNCHANGED <<sessions, mlock, popped, calls>>

\* --------------------------- GET /api/sessions/{session_id}/diagnostics
api_get_diagnostics(t) ==
    /\ th[t].pc = "idle"
    /\ calls < MaxCalls
    /\ calls' = calls + 1
    /\ \E id \in SessionIds, file \in Files :
         th' = [th EXCEPT ![t] = Request("diag", "python", "/srv/proj", id, file)]
    /\ UNCHANGED <<heap, client, sessions, mlock, popped, deletedIds>>

\* the handler without the except FileNotFoundError clause
HttpStatus_noclause(exc) ==
    IF exc = "none" THEN 200 ELSE 500

\* the status the handler maps an exception of get_diagnostics to
\* (lines 235-238)
HttpStatus(exc) ==
    IF exc = "none" THEN 200
    ELSE IF exc = "FileNotFoundError" THEN 404
    ELSE 500

\* get_session handing out the session from inside the block of line 149,
\* so that get_diagnostics runs with the registry lock held
api_get_diagnostics_lookup_hold(t) ==
    /\ th[t].pc = "gs_get" /\ th[t].op = "diag"
    /\ LET s == Lookup(sessions, th[t].session_id) IN
       /\ mlock' = IF s = None THEN None ELSE mlock
       /\ th' = [th EXCEPT ![t] =
                   IF s = None
                   THEN Respond(@, 404, "none", <<>>)
                   ELSE [@ EXCEPT !.pc = "gd_check", !.session = s]]
    /\ UNCHANGED <<heap, client, sessions, popped, deletedIds, calls>>

\* lines 224-226: session = session_manager.get_session(session_id);
\* 404 without a session
api_get_diagnostics_lookup(t) ==
    /\ th[t].pc = "gs_get" /\ th[t].op = "diag"
    /\ mlock' = None
    /\ LET s == Lookup(sessions, th[t].session_id) IN
       th' = [th EXCEPT ![t] =
                IF s = None
                THEN Respond(@, 404, "none", <<>>)
                ELSE [@ EXCEPT !.pc = "gd_check", !.session = s]]
    /\ UNCHANGED <<heap, client, sessions, popped, deletedIds, calls>>

\* LSPSession.get_diagnostics, lines 109-110
get_diagnostics_check(t) ==
    /\ th[t].pc = "gd_check"
    /\ th' = [th EXCEPT ![t] =
                IF heap[th[t].session].lsp = None
                THEN Respond(@, HttpStatus("RuntimeError"), "RuntimeError", <<>>)
                ELSE [@ EXCEPT !.pc = "gd_acquire"]]
    /\ UNCHANGED <<heap, client, sessions, mlock, popped, deletedIds, calls>>

\* the underlying client's open_file(path).__enter__: the outcomes
\* "opened", "FileNotFoundError", "Exception".  A file that does not exist
\* is never opened; what a client that is being or has been released does
\* with an existing file is not fixed.
open_file(c, file) ==
    IF file = "gone.py" THEN {"FileNotFoundError"}
    ELSE IF c.status # "running" THEN {"opened", "Exception"}
    ELSE {"opened"}

\* lines 112-114 once the lock is taken: self.lsp is read again (None has
\* no attribute open_file) and the file is opened; an exception leaves
\* the block of line 112, which releases the lock, and is mapped by the
\* handler
with_open_file(t, k) ==
    IF heap[k].lsp = None
    THEN /\ th' = [th EXCEPT ![t] =
                     Respond(@, HttpStatus("AttributeError"), "AttributeError", <<>>)]
         /\ UNCHANGED <<heap, client>>
    ELSE \E out \in open_file(client[k], th[t].file_path) :
           IF out = "opened"
           THEN /\ heap' = [heap EXCEPT ![k].lock = t]
                /\ client' = [client EXCEPT ![k].open = @ \cup {th[t].file_path}]
                /\ Goto(t, "gd_sleep")
           ELSE /\ th' = [th EXCEPT ![t] = Respond(@, HttpStatus(out), out, <<>>)]
                /\ UNCHANGED <<heap, client>>

\* get_diagnostics with one lock shared by all sessions
get_diagnostics_open_global(t) ==
    /\ th[t].pc = "gd_acquire"
    /\ \A k \in 1..Len(heap) : heap[k].lock = None
    /\ with_open_file(t, th[t].session)
    /\ UNCHANGED <<sessions, mlock, popped, deletedIds, calls>>

\* get_diagnostics without the lock of line 112
get_diagnostics_open_nolock(t) ==
    /\ th[t].pc = "gd_acquire"
    /\ with_open_file(t, th[t].session)
    /\ UNCHANGED <<sessions, mlock, popped, deletedIds, calls>>

\* with self._lock: (line 112, once the lock is free) and
\* with self.lsp.open_file(file_path): (line 114)
get_diagnostics_open(t) ==
    /\ th[t].pc = "gd_acquire"
    /\ heap[th[t].session].lock = None
    /\ with_open_file(t, th[t].session)
    /\ UNCHANGED <<sessions, mlock, popped, deletedIds, calls>>

\* the underlying client's request_diagnostics(path): the outcomes
request_diagnostics(c, file) == {"none", "Exception"}

\* the records the language server finds in a file, in the order in which
\* it pushes them (unsorted, one record twice)
Diagnostics == <<"d2", "d1", "d2">>

\* the language server pushes its next record for an open file: the
\* client adds it to the diagnostics accumulated for the file
publish_diagnostics(k) ==
    /\ client[k].status = "running"
    /\ client[k].open # {}
    /\ Len(client[k].diags) < Len(Diagnostics)
    /\ client' = [client EXCEPT
                    ![k].diags = Append(@, Diagnostics[Len(@) + 1])]
    /\ UNCHANGED <<th, heap, sessions, mlock, popped, deletedIds, calls>>

\* get_diagnostics returning the records sorted and without duplicates
get_diagnostics_return_sorted(t) ==
    /\ th[t].pc = "gd_sleep"
    /\ LET k == th[t].session
           S == {client[k].diags[i] : i \in 1..Len(client[k].diags)}
           sorted == IF S = {} THEN <<>>
                     ELSE IF S = {"d1"} THEN <<"d1">>
                     ELSE IF S = {"d2"} THEN <<"d2">>
                     ELSE <<"d1", "d2">> IN
       /\ \E out \in (IF heap[k].lsp = None THEN {"AttributeError"}
                      ELSE request_diagnostics(client[k], th[t].file_path)) :
            th' = [th EXCEPT ![t] =
                     Respond(@, HttpStatus(out), out,
                             IF out = "none" THEN sorted ELSE <<>>)]
       /\ client' = [client EXCEPT ![k].open = @ \ {th[t].file_path}]
       /\ heap' = [heap EXCEPT ![k].lock = None]
    /\ UNCHANGED <<sessions, mlock, popped, deletedIds, calls>>

\* get_diagnostics with self._lock.acquire() in place of the with block of
\* line 112 and a release on the normal return only
get_diagnostics_return_keep(t) ==
    /\ th[t].pc = "gd_sleep"
    /\ LET k == th[t].session IN
       /\ \E out \in (IF heap[k].lsp = None THEN {"AttributeError"}
                      ELSE request_diagnostics(client[k], th[t].file_path)) :
            /\ th' = [th EXCEPT ![t] =
                        Respond(@, HttpStatus(out), out,
                                IF out = "none" THEN client[k].diags ELSE <<>>)]
            /\ heap' = [heap EXCEPT ![k].lock = IF out = "none" THEN None ELSE @]
       /\ client' = [client EXCEPT ![k].open = @ \ {th[t].file_path}]
    /\ UNCHANGED <<sessions, mlock, popped, deletedIds, calls>>

\* get_diagnostics opening the file without a with block: it stays open
get_diagnostics_return_noclose(t) ==
    /\ th[t].pc = "gd_sleep"
    /\ LET k == th[t].session IN
       /\ \E out \in (IF heap[k].lsp = None THEN {"AttributeError"}
                      ELSE request_diagnostics(client[k], th[t].file_path)) :
            th' = [th EXCEPT ![t] =
                     Respond(@, HttpStatus(out), out,
                             IF out = "none" THEN client[k].diags ELSE <<>>)]
       /\ client' = client
       /\ heap' = [heap EXCEPT ![k].lock = None]
    /\ UNCHANGED <<sessions, mlock, popped, deletedIds, calls>>

\* the end of time.sleep (line 116) and line 117: self.lsp is read again
\* and queried, and what the client has accumulated is returned as it is;
\* then the blocks of lines 114 and 112 are left (the file is closed, the
\* lock released) and the handler maps the outcome (lines 230-238)
get_diagnostics_return(t) ==
    /\ th[t].pc = "gd_sleep"
    /\ LET k == th[t].session IN
       /\ \E out \in (IF heap[k].lsp = None THEN {"AttributeError"}
                      ELSE request_diagnostics(client[k], th[t].file_path)) :
            th' = [th EXCEPT ![t] =
                     Respond(@, HttpStatus(out), out,
                             IF out = "none" THEN client[k].diags ELSE <<>>)]
       /\ client' = [client EXCEPT ![k].open = @ \ {th[t].file_path}]
       /\ heap' = [heap EXCEPT ![k].lock = None]
    /\ UNCHANGED <<sessions, mlock, popped, deletedIds, calls>>

\* ------------------------------------------------------------ vocabulary
Objects == 1..Len(heap)

\* thread t is inside the underlying client of session k on behalf of
\* get_diagnostics: it has opened the file and the query has not returned
InClient(t, k) == th[t].session = k /\ th[t].pc = "gd_sleep"

\* thread t executes Start's handshake or Stop's release on the client of k
InStart(t, k) == th[t].session = k /\ th[t].pc = "st_enter"
InStop(t, k) == th[t].session = k /\ th[t].pc = "stop_exit"

\* the session is Running: it has its client and the handshake is done
Running(k) ==
    /\ heap[k].lsp # None
    /\ heap[k].server_context # None
    /\ client[k].status = "running"

\* Start has completed on the session (it may have been stopped since)
StartCompleted(k) == client[k].status \in {"running", "exiting", "exited"}

Done(t) == th[t].pc = "idle" /\ th[t].code # 0

\* the positions at which a thread is inside a block "with self._lock" of
\* the SessionManager
MapOps == {"cs_insert", "gs_get", "ls_keys", "ds_pop"}

Range(seq) == {seq[i] : i \in 1..Len(seq)}

\* the steps of one thread
ThreadStep(t) ==
    \E u \in {t} :
        \/ start_enter(u)
        \/ create_session_lock(u) \/ create_session_insert(u)
        \/ get_session_lock(u) \/ get_session_return(u)
        \/ list_sessions_lock(u) \/ list_sessions_return(u)
        \/ delete_session_lock(u) \/ delete_session_pop(u)
        \/ stop(u) \/ stop_exit(u)
        \/ api_get_diagnostics_lookup(u) \/ get_diagnostics_check(u)
        \/ get_diagnostics_open(u) \/ get_diagnostics_return(u)

\* ------------------------------------------------------------------ C1
\* C1: two get_diagnostics calls on the same session are never inside the
\* underlying client at the same time (file open, waiting, querying).
C1_NoOverlap ==
    \A k \in Objects : Cardinality({t \in Threads : InClient(t, k)}) <= 1

\* one call is inside the client while another call on the same session
\* waits for the session lock
C1_Witness ==
    \E k \in Objects : \E t, u \in Threads :
        /\ t # u
        /\ InClient(t, k)
        /\ th[u].pc = "gd_acquire" /\ th[u].session = k

\* ------------------------------------------------------------------ C2
\* C2: at most one operation (Start, Stop or GetDiagnostics) executes
\* against the client of a session at any time.
C2_MutualExclusion ==
    \A k \in Objects :
        Cardinality({t \in Threads : InClient(t, k) \/ InStart(t, k) \/ InStop(t, k)}) <= 1

\* ------------------------------------------------------------------ C3
\* C3: every session the registry holds is Running, and every session a
\* GetSession call has returned has completed Start; a created session
\* whose id is looked up is found Running.
C3_VisibleSessionsStarted ==
    /\ \A k \in Values(sessions) : Running(k)
    /\ \A t \in Threads :
         (th[t].op = "get" /\ Done(t) /\ th[t].code = 200)
            => StartCompleted(th[t].ret[1])
    /\ \A t \in Threads :
         (th[t].op = "list" /\ Done(t))
            => \A k \in Objects :
                 heap[k].session_id \in Range(th[t].ret) => StartCompleted(k)

\* GetSession has returned a Running session while another session is
\* still in its startup handshake
C3_Witness ==
    \E t, u \in Threads :
        /\ th[t].op = "get" /\ Done(t) /\ th[t].code = 200
        /\ Running(th[t].ret[1])
        /\ th[u].pc = "st_enter"

\* ------------------------------------------------------------------ C4
ValidRequest(language, path) ==
    language \in SupportedLanguages /\ isabs(path) /\ isdir(path)

\* C4: a create request with an unsupported language, a relative path or a
\* path that is no directory ends with the validation error (400), and
\* that step constructs no session, starts no client and leaves the
\* registry alone; only valid requests get past the validation.
C4_ValidationFailure ==
    /\ [](\A k \in Objects : ValidRequest(heap[k].language, heap[k].project_path))
    /\ [](\A t \in Threads :
            th[t].pc \in {"st_enter", "cs_lock", "cs_insert"}
               => ValidRequest(th[t].language, th[t].project_path))
    /\ [][\A t \in Threads :
            (th[t].pc = "idle" /\ th'[t] # th[t] /\ th'[t].op = "create"
               /\ Len(heap') = Len(heap))
               => /\ th'[t].pc = "idle"
                  /\ th'[t].code = 400 /\ th'[t].exc = "ValueError"
                  /\ heap' = heap /\ client' = client /\ sessions' = sessions
                  ]_vars

\* a create request was refused while the registry holds a session
C4_Witness ==
    \E t \in Threads :
        /\ th[t].op = "create" /\ Done(t) /\ th[t].code = 400
        /\ Len(sessions) > 0
        /\ \A k \in Objects : Running(k)

\* ------------------------------------------------------------------ C5
\* the start of session k has failed (create raised, or the handshake did)
StartFailed(k) == client[k].status \in {"absent", "failed"}

C6_DeleteUnknown ==
    /\ [](\A t \in Threads :
            th[t].pc \in {"stop", "stop_exit"}
               => th[t].session # None /\ th[t].session \in popped)
    /\ [][\A t \in Threads :
            (th[t].pc = "ds_pop" /\ th'[t].pc # "ds_pop"
               /\ th[t].session_id \notin KeySet(sessions))
               => /\ th'[t].pc = "idle" /\ th'[t].code = 404
                  /\ sessions' = sessions /\ heap' = heap /\ client' = client
                  /\ popped' = popped]_vars

\* a delete of an unknown id was answered 404 while the registry holds a
\* session
C6_Witness ==
    \E t \in Threads :
        /\ th[t].op = "delete" /\ Done(t) /\ th[t].code = 404
        /\ th[t].session_id \notin KeySet(sessions)
        /\ Len(sessions) > 0

C8_NoOperationAfterRemoval ==
    [][\A t \in Threads :
         (th[t].pc = "gd_acquire" /\ th'[t].pc = "gd_sleep")
            => th[t].session \notin popped]_vars

\* ------------------------------------------------------------------ C9
\* C9: DeleteSession of an id that is in the registry removes it and
\* answers True (200) whether or not the release of the client raised: no
\* exception leaves the call, and the session's handles are cleared.
C9_DeleteAlwaysSucceeds ==
    /\ [](\A t \in Threads :
            (th[t].op = "delete" /\ Done(t))
               => th[t].code \in {200, 404} /\ th[t].exc = "none")
    /\ [](\A k \in Objects :
            client[k].status = "exited"
               => /\ heap[k].lsp = None /\ heap[k].server_context = None
                  /\ heap[k].session_id \notin KeySet(sessions)
                  /\ heap[k].session_id \in deletedIds)
    /\ [][\A t \in Threads :
            (th[t].pc = "ds_pop" /\ th'[t].pc # "ds_pop"
               /\ th[t].session_id \in KeySet(sessions))
               => /\ th'[t].pc = "stop"
                  /\ th[t].session_id \notin KeySet(sessions')]_vars
    /\ [][\A t \in Threads :
            (th[t].pc \in {"stop", "stop_exit"} /\ th'[t].pc = "idle")
               => /\ th'[t].code = 200
                  /\ heap'[th[t].session].lsp = None
                  /\ heap'[th[t].session].server_context = None]_vars

\* a delete was answered 200 although the release of the client raised
C9_Witness ==
    \E t \in Threads : \E k \in Objects :
        /\ th[t].op = "delete" /\ Done(t) /\ th[t].code = 200
        /\ th[t].session_id = heap[k].session_id
        /\ client[k].status = "exited" /\ client[k].exit_error
        /\ heap[k].lsp = None

\* ----------------------------------------------------------------- C10
\* C10: after Stop the handle is cleared and get_diagnostics fails with
\* "not started" (RuntimeError); a call that races with Stop either runs
\* only while the client is live or fails with that error, never with
\* another error caused by the handle being cleared under it.
C10_StopVersusDiagnostics ==
    /\ \A k \in Objects : client[k].status = "exited" => heap[k].lsp = None
    /\ \A t \in Threads :
         th[t].pc = "gd_sleep" => Running(th[t].session)
    /\ \A t \in Threads : th[t].exc # "AttributeError"

\* ----------------------------------------------------------------- C11
\* C11: a get_diagnostics call that waits for its session lock waits for a
\* call on the same session, never for a call on another session, and
\* holds no registry lock meanwhile; two calls on different sessions can
\* be inside their clients at the same time (the witness).
C11_NoCrossSessionWait ==
    \A t \in Threads :
        th[t].pc \in {"gd_check", "gd_acquire", "gd_sleep"}
           => /\ mlock # t
              /\ (th[t].pc = "gd_acquire" /\ ~ENABLED get_diagnostics_open(t))
                    => \E u \in Threads \ {t} : InClient(u, th[t].session)

\* two calls on different sessions are inside their clients at once
C11_Witness ==
    \E t, u \in Threads : \E k, j \in Objects :
        /\ t # u /\ k # j
        /\ InClient(t, k) /\ InClient(u, j)

\* ----------------------------------------------------------------- C12
\* the sessions whose create_session has stored them (Start completed and
\* the creating call is past line 143) and that no delete_session has
\* popped
Live(k) ==
    /\ StartCompleted(k)
    /\ k \notin popped
    /\ \A t \in Threads :
         ~(th[t].session = k /\ th[t].pc \in {"cs_lock", "cs_insert"})

LiveIds == {heap[k].session_id : k \in {j \in Objects : Live(j)}}

C13_IdsNeverReused ==
    /\ \A j, k \in Objects : j # k => heap[j].session_id # heap[k].session_id
    /\ \A k \in Objects : Live(k) => Lookup(sessions, heap[k].session_id) = k

\* ----------------------------------------------------------------- C14
\* C14: the release (__exit__) of a session's client is invoked at most
\* once, only by the stop of a delete_session that popped the session,
\* and exactly once when that delete_session has returned, also when two
\* delete_session calls for the id run together; no two sessions hold the
\* same client.
C14_ReleasedOnce ==
    /\ [](\A k \in Objects : client[k].exits <= 1)
    /\ [](\A k \in Objects :
            (StartCompleted(k) /\ heap[k].session_id \in deletedIds)
               => client[k].exits = 1 /\ client[k].status = "exited")
    /\ [](\A j, k \in Objects :
            (j # k /\ heap[j].lsp # None) => heap[j].lsp # heap[k].lsp)
    /\ [][\A k \in Objects :
            client'[k].exits # client[k].exits
               => \E t \in Threads :
                    /\ th[t].pc = "stop" /\ th[t].session = k
                    /\ th[t].op = "delete" /\ k \in popped]_vars

\* one delete_session is releasing the client while another delete_session
\* for the same id is on its way
C14_Witness ==
    \E t, u \in Threads :
        /\ t # u
        /\ th[t].pc = "stop_exit" /\ client[th[t].session].exits = 1
        /\ th[u].op = "delete" /\ th[u].pc \in {"call", "ds_pop"}
        /\ th[u].session_id = th[t].session_id

\* ----------------------------------------------------------------- C15
\* C15: a diagnostics request that found its session ends in the step in
\* which get_diagnostics returns or raises (nothing is tried again): 404
\* for FileNotFoundError, 500 with the exception for any other one, 200
\* without one; that step leaves the registry alone and the caller does
\* not hold the session lock afterwards.
C15_DiagnosticsOutcome ==
    /\ [](\A k \in Objects : \A t \in Threads :
            heap[k].lock = t => th[t].pc = "gd_sleep" /\ th[t].session = k)
    /\ [][\A t \in Threads :
            (th[t].pc \in {"gd_check", "gd_acquire", "gd_sleep"} /\ th'[t] # th[t])
               => /\ sessions' = sessions
                  /\ \/ /\ th[t].pc = "gd_check" /\ th'[t].pc = "gd_acquire"
                     \/ /\ th[t].pc = "gd_acquire" /\ th'[t].pc = "gd_sleep"
                     \/ /\ th'[t].pc = "idle" /\ th'[t].op = "diag"
                        /\ heap'[th[t].session].lock # t
                        /\ (th[t].pc = "gd_sleep"
                              => th[t].file_path \notin client'[th[t].session].open)
                        /\ (th'[t].exc = "FileNotFoundError" => th'[t].code = 404)
                        /\ (th'[t].exc \notin {"none", "FileNotFoundError"}
                              => th'[t].code = 500)
                        /\ (th'[t].exc = "none" => th'[t].code = 200)]_vars

\* on a registered session one request has ended 404 for a missing file
\* and another 500 for a failure of the client, and its lock is free
C15_Witness ==
    \E t, u \in Threads : \E k \in Values(sessions) :
        /\ th[t].op = "diag" /\ Done(t) /\ th[t].session_id = heap[k].session_id
        /\ th[t].exc = "FileNotFoundError" /\ th[t].code = 404
        /\ th[u].op = "diag" /\ Done(u) /\ th[u].session_id = heap[k].session_id
        /\ th[u].exc = "Exception" /\ th[u].code = 500
        /\ heap[k].lock = None

\* ----------------------------------------------------------------- C16
\* C16: a create request is answered 400 exactly when its validation
\* failed (the request ended before a session was constructed), and 500
\* whenever the start of the session failed, whatever was raised.
C16_CreateStatus ==
    [][\A t \in Threads :
         (th'[t] # th[t] /\ th'[t].pc = "idle" /\ th'[t].op = "create"
            /\ th'[t].code # 200)
            => IF th[t].pc = "idle" /\ Len(heap') = Len(heap)
               THEN th'[t].code = 400
               ELSE th'[t].code = 500]_vars

\* ----------------------------------------------------------------- C17
\* C17: a get_diagnostics call that ends without an exception returns the
\* records the client holds for the file at the moment of the query, in
\* the client's order and with repeated records kept, also when the
\* language server has not pushed all of its records yet (the result is
\* then a prefix of them, possibly empty, and no error).
C17_Verbatim ==
    [][\A t \in Threads :
         (th[t].pc = "gd_sleep" /\ th'[t].pc = "idle" /\ th'[t].exc = "none")
            => /\ th'[t].code = 200
               /\ th'[t].ret = client[th[t].session].diags
               /\ th'[t].ret = SubSeq(Diagnostics, 1, Len(th'[t].ret))]_vars

\* a call has returned two of the three records, unsorted, without error
C17_Witness ==
    \E t \in Threads :
        /\ th[t].op = "diag" /\ Done(t) /\ th[t].code = 200
        /\ th[t].ret = <<"d2", "d1">>

\* ----------------------------------------------------------------- C18
\* C18: the registry lock is held only by a thread at a map operation,
\* whose next step releases it; a thread in start() or stop() does not
\* hold it, so a caller that wants the registry lock either can take it
\* or waits for a thread at a map operation, never for a start or a stop.
C18_RegistryLockShort ==
    /\ [](mlock # None => th[mlock].pc \in MapOps)
    /\ [](\A t \in Threads :
            /\ th[t].pc \in MapOps => mlock = t
            /\ th[t].pc \in {"st_enter", "stop", "stop_exit"} => mlock # t)
    /\ [](\A u \in Threads :
            /\ (th[u].pc = "call" /\ th[u].op \in {"get", "diag"})
                  => ENABLED get_session_lock(u) \/ mlock # None
            /\ (th[u].pc = "call" /\ th[u].op = "list")
                  => ENABLED list_sessions_lock(u) \/ mlock # None
            /\ (th[u].pc = "call" /\ th[u].op = "delete")
                  => ENABLED delete_session_lock(u) \/ mlock # None
            /\ th[u].pc = "cs_lock"
                  => ENABLED create_session_lock(u) \/ mlock # None)
    /\ [][\A t \in Threads :
            (th[t].pc \in MapOps /\ th'[t] # th[t])
               => mlock = t /\ mlock' = None]_vars

\* one caller is in the startup of its session while another caller is
\* inside the registry lock
C18_Witness ==
    \E t, u \in Threads :
        /\ t # u
        /\ th[t].pc = "st_enter"
        /\ th[u].pc \in MapOps

C20_HandleIffRunning ==
    \A k \in Objects :
        heap[k].lsp # None <=> client[k].status = "running"

\* ----------------------------------------------------------------- C21
\* C21: a get_diagnostics call holds the session lock from its running
\* check on: once the check of self.lsp is passed the caller has the lock,
\* and it has the lock and the file open while it waits and queries.
C21_LockForWholeCall ==
    \A t \in Threads :
        /\ th[t].pc \in {"gd_acquire", "gd_sleep"}
              => heap[th[t].session].lock = t
        /\ th[t].pc = "gd_sleep"
              => th[t].file_path \in client[th[t].session].open

\* ----------------------------------------------------------------- C22
\* C22: a file is open in a client only while a get_diagnostics call that
\* opened it is between open_file and its return; the step in which the
\* call returns or raises closes the file, so with no call inside a client
\* no file is open in it.
C22_FilesClosed ==
    /\ [](\A k \in Objects :
            client[k].open =
                {th[t].file_path : t \in {u \in Threads : InClient(u, k)}})
    /\ [][\A t \in Threads :
            (th[t].pc = "gd_sleep" /\ th'[t] # th[t])
               => /\ th'[t].pc = "idle"
                  /\ th[t].file_path \notin client'[th[t].session].open]_vars

\* a call whose query failed has ended and no file is open in the client
\* of its session
C22_Witness ==
    \E t \in Threads : \E k \in Objects :
        /\ th[t].op = "diag" /\ Done(t) /\ th[t].exc = "Exception"
        /\ th[t].session_id = heap[k].session_id
        /\ client[k].status = "running"
        /\ client[k].open = {}
        /\ \A u \in Threads : ~InClient(u, k)

\* ----------------------------------------------------------------- C23
\* C23: every session object goes one way through Starting, Running (or
\* Failed), Stopping, Stopped: at most one start and at most one stop act
\* on it, a start only before any stop, a session that is Stopped or
\* Failed holds no client, and every create_session constructs an object
\* with an id no other object has.
C23_OneDirectional ==
    /\ [](\A k \in Objects :
            /\ Cardinality({t \in Threads : InStart(t, k)}) <= 1
            /\ Cardinality({t \in Threads :
                   th[t].session = k /\ th[t].pc \in {"stop", "stop_exit"}}) <= 1
            /\ client[k].exits <= 1
            /\ (\E t \in Threads : InStart(t, k)) => client[k].exits = 0)
    /\ [][LET rank(c) == CASE c.status = "starting" -> 1
                           [] c.status = "running" -> 2
                           [] c.status = "exiting" -> 3
                           [] c.status = "exited" -> 4
                           [] OTHER -> 5
          IN \A k \in Objects : rank(client'[k]) >= rank(client[k])]_vars
    /\ [](\A k \in Objects :
            (StartFailed(k) \/ client[k].status = "exited")
               => heap[k].lsp = None)
    /\ [](\A j, k \in Objects :
            j # k => heap[j].session_id # heap[k].session_id)

\* ----------------------------------------------------------------- C24
\* C24: of the delete_session calls for one id that run together, the one
\* whose pop finds the session takes it out of the registry and returns
\* True, and every other one finds nothing and returns False: no two
\* calls for the same id are on the True path, whatever the interleaving.
DeleteTrue(t) ==
    /\ th[t].op = "delete"
    /\ \/ th[t].pc \in {"stop", "stop_exit"}
       \/ Done(t) /\ th[t].code = 200

WaitsRegistry(t) == th[t].pc \in {"call", "cs_lock"}
WaitsSession(t) == th[t].pc = "gd_acquire"

C25_NoDeadlock ==
    /\ \A t \in Threads :
          /\ mlock = t => \A k \in Objects : heap[k].lock # t
          /\ Cardinality({k \in Objects : heap[k].lock = t}) <= 1
          /\ (mlock = t \/ \E k \in Objects : heap[k].lock = t)
                => ~WaitsRegistry(t) /\ ~WaitsSession(t)
    /\ \A t \in Threads :
          th[t].pc # "idle"
             => \/ ENABLED ThreadStep(t)
                \/ /\ WaitsRegistry(t)
                   /\ mlock \in Threads \ {t}
                   /\ ENABLED ThreadStep(mlock)
                \/ /\ WaitsSession(t)
                   /\ heap[th[t].session].lock \in Threads \ {t}
                   /\ ENABLED ThreadStep(heap[th[t].session].lock)

\* both kinds of lock are held at once, by different threads: one thread
\* is inside get_diagnostics with the session lock, another is inside a
\* registry operation with the registry lock
C25_Witness ==
    \E t, u \in Threads :
        /\ t # u
        /\ th[t].pc = "gd_sleep" /\ heap[th[t].session].lock = t
        /\ mlock = u /\ th[u].pc \in MapOps

\* ----------------------------------------------------------------- C26
\* C26: a session lock is held only by a get_diagnostics call that is
\* between open_file and its return, and every step in which such a call
\* ends, normally or by an exception, leaves the lock free; hence, when
\* every runnable thread is scheduled, a call that has reached the lock of
\* line 112 ends, also when the session is stopped while it waits.
C26_LockReleased ==
    /\ [](\A k \in Objects :
            heap[k].lock # None => InClient(heap[k].lock, k))
    /\ [][\A t \in Threads :
            (th[t].pc \in {"gd_acquire", "gd_sleep"} /\ th'[t].pc = "idle")
               => heap'[th[t].session].lock = None]_vars
    /\ \A t \in Threads :
          (th[t].pc = "gd_acquire") ~> (th[t].pc = "idle")

\* a call that was at the lock while its session was deleted has ended
\* with the AttributeError of line 114 and the lock is free
C26_Witness ==
    \E t \in Threads :
        /\ th[t].op = "diag" /\ Done(t) /\ th[t].exc = "AttributeError"
        /\ th[t].session_id \in deletedIds
        /\ \A k \in Objects :
              heap[k].session_id = th[t].session_id => heap[k].lock = None

Next ==
    \E t \in Threads :
        \/ api_create_session(t)
        \/ start_enter(t)
        \/ create_session_lock(t)
        \/ create_session_insert(t)
        \/ get_session(t)
        \/ get_session_lock(t)
        \/ get_session_return(t)
        \/ list_sessions(t)
        \/ list_sessions_lock(t)
        \/ list_sessions_return(t)
        \/ api_delete_session(t)
        \/ delete_session_lock(t)
        \/ delete_session_pop(t)
        \/ stop(t)
        \/ stop_exit(t)
        \/ api_get_diagnostics(t)
        \/ api_get_diagnostics_lookup(t)
        \/ get_diagnostics_check(t)
        \/ get_diagnostics_open(t)
        \/ get_diagnostics_return(t)

Spec == Init /\ [][Next]_vars

\* every thread that can take a step of its handler eventually takes one:
\* the operating system schedules every runnable thread, and every call
\* into the underlying client returns
FairSpec == Spec /\ \A t \in Threads : WF_vars(ThreadStep(t))

\* the state after one POST /api/sessions has been answered 200: the
\* session is started and registered, no request is in progress
InitRunning ==
    /\ th = [t \in Threads |-> Idle]
    /\ heap = <<[LSPSession(IdPool[1], "python", "/srv/proj")
                   EXCEPT !.lsp = 1, !.server_context = 1]>>
    /\ client = <<[NoClient EXCEPT !.status = "running"]>>
    /\ sessions = DictPut(<<>>, IdPool[1], 1)
    /\ mlock = None
    /\ popped = {}
    /\ deletedIds = {}
    /\ calls = 0

\* the program from the state with one running session
WarmSpec == InitRunning /\ [][Next]_vars

\* the calls that use a started session: diagnostics requests and deletions
\* on the session of InitRunning, every runnable thread being scheduled and
\* every call into the underlying client returning
DiagNext ==
    \E t \in Threads :
        \/ api_get_diagnostics(t)
        \/ get_session_lock(t)
        \/ api_get_diagnostics_lookup(t)
        \/ get_diagnostics_check(t)
        \/ get_diagnostics_open(t)
        \/ get_diagnostics_return(t)
        \/ api_delete_session(t)
        \/ delete_session_lock(t)
        \/ delete_session_pop(t)
        \/ stop(t)
        \/ stop_exit(t)

DiagFairSpec ==
    /\ InitRunning
    /\ [][DiagNext]_vars
    /\ \A t \in Threads : WF_vars(ThreadStep(t))

\* the program together with the language server's pushes
PushNext == Next \/ \E k \in Objects : publish_diagnostics(k)

PushSpec == Init /\ [][PushNext]_vars

\* the program when a draw of line 138 may repeat an earlier one
DrawNext == Next \/ \E t \in Threads : api_create_session_repeat(t)

DrawSpec == Init /\ [][DrawNext]_vars
====
